---- MODULE Spec2Model ----
(***************************************************************************)
(* Model of the Brave Search and Exa tool adapters (llm_tools_brave.py,    *)
(* llm_tools_exa.py).                                                      *)
(*                                                                         *)
(* Text is modelled as a sequence of chunks: a Python string is the        *)
(* concatenation of its chunks, "" is << >>, and "\n" is the chunk NL.     *)
(* An f-string is the concatenation of its literal chunks and its          *)
(* interpolated values; str.join interleaves the separator.                *)
(* A Python dict is a function whose domain is its set of keys.  An        *)
(* Optional value is a record [isNone, v].                                 *)
(* One invocation of a tool is one step from pc = "idle" to pc = "done";   *)
(* the host then takes the result and the toolbox is idle again.           *)
(***************************************************************************)
EXTENDS Integers, Sequences, FiniteSets, TLC

VARIABLES
    pc,        \* "idle": no invocation in progress; "done": one has ended
    op,        \* the operation invoked last
    args,      \* its keyword arguments
    key,       \* what the key store yielded to this invocation
    resp,      \* what the provider answered to this invocation
    keyReads,  \* llm.get_key calls made by this invocation
    clients,   \* provider client constructors this invocation called
    sent,      \* outbound provider calls of this invocation, in order
    outcome,   \* the invocation's return value or raised exception
    first,     \* history: the first invocation of the toolbox, as it was observed
    earlier    \* history: how the invocations before this one ended

vars == <<pc, op, args, key, resp, keyReads, clients, sent, outcome, first, earlier>>

-----------------------------------------------------------------------------
(* Bounds of the model.                                                    *)

\* num_results ranges over (1 - NumBelow) .. (20 + NumAbove)
NumBelow == 2
NumAbove == 5
\* longest include_domains / exclude_domains list
MaxDomains == 2
\* longest result or citation list of a provider response
MaxResults == 2
-----------------------------------------------------------------------------
(* Python values.                                                          *)

NL == "\n"

None == [isNone |-> TRUE, v |-> << >>]

Some(x) == [isNone |-> FALSE, v |-> x]

\* bool(x) of an Optional[str] or Optional[list]: None, "" and [] are falsy
Truthy(o) == ~o.isNone /\ o.v # << >>

EmptyDict == [k \in {} |-> << >>]

\* d.get(k, default)
Get(d, k, default) == IF k \in DOMAIN d THEN d[k] ELSE default

\* d[k] = v
SetItem(d, k, v) == [x \in (DOMAIN d) \cup {k} |-> IF x = k THEN v ELSE d[x]]

\* sep.join(parts), parts a list of strings
RECURSIVE Join(_, _)
Join(parts, sep) ==
    IF parts = << >> THEN << >>
    ELSE IF Len(parts) = 1 THEN parts[1]
    ELSE parts[1] \o sep \o Join(Tail(parts), sep)

\* the chunk c occurs in the text
Contains(text, c) == \E i \in 1..Len(text) : text[i] = c

\* the text starts with the chunks of prefix
StartsWith(text, prefix) ==
    /\ Len(text) >= Len(prefix)
    /\ SubSeq(text, 1, Len(prefix)) = prefix

Returned(text) == [kind |-> "return", type |-> "str", text |-> text]

Raised(type, text) == [kind |-> "raise", type |-> type, text |-> text]

-----------------------------------------------------------------------------
(* BraveTools._make_request                                                *)

KeyNotFoundMessage ==
    <<"Brave API key not found. Please set it using: ", "llm keys set brave">>

Rejected422Message ==
    <<"Brave API rejected the request (", "422",
      "). This usually means the API key is invalid or the request format is incorrect. ",
      "Please check your API key with: ", "llm keys set brave", " YOUR_API_KEY">>

AuthFailed401Message ==
    <<"Brave API authentication failed (", "401",
      "). Please check your API key with: ", "llm keys set brave", " YOUR_API_KEY">>

\* f"Brave API error ({e.response.status_code}): {str(e)}"
ApiErrorMessage(status, msg) ==
    <<"Brave API error (", ToString(status), "): ">> \o msg

\* f"Failed to connect to Brave API: {str(e)}"
ConnectErrorMessage(msg) == <<"Failed to connect to Brave API", ": ">> \o msg

BraveHeaders(k) ==
    [Accept |-> <<"application/json">>,
     AcceptEncoding |-> <<"gzip">>,
     XSubscriptionToken |-> k.v]

BraveUrl(endpoint) == <<"https://api.search.brave.com/res/v1/", endpoint>>

BraveGets_Twice(endpoint, params, k) ==
    LET get == [url |-> BraveUrl(endpoint), headers |-> BraveHeaders(k),
                params |-> params]
    IN  <<get, get>>

\* the one client.get of a request
BraveGets(endpoint, params, k) ==
    << [url |-> BraveUrl(endpoint), headers |-> BraveHeaders(k), params |-> params] >>

HandleStatusError_AllRecoverable(r) ==
    [raised |-> FALSE, exc |-> Returned(<< >>),
     data |-> [error |-> ApiErrorMessage(r.status, r.msg)]]

HandleStatusError_AuthRecoverable(r) ==
    IF r.status = 422 THEN
        [raised |-> TRUE, exc |-> Raised("ValueError", Rejected422Message),
         data |-> EmptyDict]
    ELSE
        [raised |-> FALSE, exc |-> Returned(<< >>),
         data |-> [error |-> ApiErrorMessage(r.status, r.msg)]]

HandleStatusError_ServerFatal(r) ==
    IF r.status >= 500 THEN
        [raised |-> TRUE,
         exc |-> Raised("ValueError", ApiErrorMessage(r.status, r.msg)),
         data |-> EmptyDict]
    ELSE HandleStatusError_AllRecoverable(r)

\* the except clauses: what an HTTPStatusError of status r.status, or any other
\* Exception, becomes
HandleStatusError(r) ==
    IF r.status = 422 THEN
        [raised |-> TRUE, exc |-> Raised("ValueError", Rejected422Message),
         data |-> EmptyDict]
    ELSE IF r.status = 401 THEN
        [raised |-> TRUE, exc |-> Raised("ValueError", AuthFailed401Message),
         data |-> EmptyDict]
    ELSE
        [raised |-> FALSE, exc |-> Returned(<< >>),
         data |-> [error |-> ApiErrorMessage(r.status, r.msg)]]

HandleOtherException_Reraise(r) ==
    [raised |-> TRUE, exc |-> Raised("Exception", r.msg), data |-> EmptyDict]

HandleOtherException(r) ==
    [raised |-> FALSE, exc |-> Returned(<< >>),
     data |-> [error |-> ConnectErrorMessage(r.msg)]]

\* the try block, given the provider's answer r to the request
TryRequest(r) ==
    CASE r.kind = "json"   -> [raised |-> FALSE, exc |-> Returned(<< >>), data |-> r.body]
      [] r.kind = "status" -> HandleStatusError(r)
      [] r.kind = "exc"    -> HandleOtherException(r)

HasKey_NoneOnly(k) == ~k.isNone

HasKey_Remembered(k) == Truthy(k) \/ "success" \in earlier

\* the credential check: TRUE when _make_request goes on to the request
HasKey(k) == Truthy(k)

\* _make_request(endpoint, params) when the key store yields k and the provider
\* answers r: the calls it makes and the dict it returns or exception it raises
MakeRequest(endpoint, params, k, r) ==
    IF ~HasKey(k) THEN
        [keyReads |-> 1, clients |-> 0, sent |-> << >>, raised |-> TRUE,
         exc |-> Raised("ValueError", KeyNotFoundMessage), data |-> EmptyDict]
    ELSE
        LET t == TryRequest(r) IN
        [keyReads |-> 1, clients |-> 1, sent |-> BraveGets(endpoint, params, k),
         raised |-> t.raised, exc |-> t.exc, data |-> t.data]

-----------------------------------------------------------------------------
(* Request parameters of the Brave operations.                             *)

CountMin == 1
CountMax == 20
DefaultNumResults == 3

Min(a, b) == IF a <= b THEN a ELSE b

Max(a, b) == IF a >= b THEN a ELSE b

Count_NoUpperBound(num_results) == Max(num_results, CountMin)

\* min(max(num_results, 1), 20)
Count(num_results) == Min(Max(num_results, CountMin), CountMax)

\* params = {"q": query, "count": ...}
BaseParams(a) == [q |-> a.query, count |-> Count(a.num_results)]

WithOptional_NotNone(params, name, arg) ==
    IF ~arg.isNone THEN SetItem(params, name, arg.v) ELSE params

\* if <arg>: params[name] = <arg>
WithOptional(params, name, arg) ==
    IF Truthy(arg) THEN SetItem(params, name, arg.v) ELSE params

SiteTerm(domain) == <<"site:", domain>>

ExcludeTerm_NoDash(domain) == <<"site:", domain>>

ExcludeTerm(domain) == <<"-site:", domain>>

SiteFilter_SpaceJoined(domains) ==
    Join([i \in 1..Len(domains) |-> SiteTerm(domains[i])], <<" ">>)

\* " OR ".join(f"site:{domain}" for domain in include_domains)
SiteFilter(domains) ==
    Join([i \in 1..Len(domains) |-> SiteTerm(domains[i])], <<" OR ">>)

\* f"{query} {exclude_terms}"
ExcludeQuery(query, domains) ==
    query \o <<" ">>
    \o Join([i \in 1..Len(domains) |-> ExcludeTerm(domains[i])], <<" ">>)

WithInclude(params, include_domains) ==
    IF Truthy(include_domains)
    THEN SetItem(params, "site", SiteFilter(include_domains.v))
    ELSE params

WithExclude(params, query, exclude_domains) ==
    IF Truthy(exclude_domains)
    THEN SetItem(params, "q", ExcludeQuery(query, exclude_domains.v))
    ELSE params

WebParams(a) ==
    LET p1 == WithOptional(BaseParams(a), "country", a.country)
        p2 == WithOptional(p1, "search_lang", a.search_lang)
        p3 == WithOptional(p2, "ui_lang", a.ui_lang)
        p4 == WithOptional(p3, "freshness", a.freshness)
        p5 == WithInclude(p4, a.include_domains)
        p6 == WithExclude(p5, a.query, a.exclude_domains)
    IN  WithOptional(p6, "result_filter", a.result_filter)

ImageParams(a) ==
    LET p1 == WithOptional(BaseParams(a), "country", a.country)
        p2 == WithOptional(p1, "search_lang", a.search_lang)
    IN  WithOptional(p2, "ui_lang", a.ui_lang)

NewsParams(a) ==
    LET p1 == WithOptional(BaseParams(a), "country", a.country)
        p2 == WithOptional(p1, "search_lang", a.search_lang)
        p3 == WithOptional(p2, "ui_lang", a.ui_lang)
    IN  WithOptional(p3, "freshness", a.freshness)

VideoParams(a) ==
    LET p1 == WithOptional(BaseParams(a), "country", a.country)
        p2 == WithOptional(p1, "search_lang", a.search_lang)
        p3 == WithOptional(p2, "ui_lang", a.ui_lang)
    IN  WithOptional(p3, "freshness", a.freshness)

-----------------------------------------------------------------------------
(* Formatting of the Brave responses.  The lines of one result are         *)
(* [ok, lines]: ok is FALSE when a subscript raises KeyError, and lines is  *)
(* then the text of that KeyError.                                         *)

Separator == <<"---------", NL>>

NA == <<"N/A">>

\* the loop over the results, given the lines of each: the output list, or the
\* first KeyError
RECURSIVE Blocks(_)
Blocks(bs) ==
    IF bs = << >> THEN [ok |-> TRUE, lines |-> << >>]
    ELSE IF ~bs[1].ok THEN bs[1]
    ELSE LET rest == Blocks(Tail(bs)) IN
         IF ~rest.ok THEN rest
         ELSE [ok |-> TRUE, lines |-> bs[1].lines \o rest.lines]

JoinOrSentinel_NoSentinel(output, sentinel) == Join(output, <<NL>>)

\* "\n".join(output) if output else <sentinel>
JoinOrSentinel(output, sentinel) ==
    IF output # << >> THEN Join(output, <<NL>>) ELSE sentinel

\* result.get(k) is truthy, for a string or list field
HasField(result, k) == k \in DOMAIN result /\ result[k] # << >>

\* result.get(k) is truthy, for a dict field
HasDict(result, k) == k \in DOMAIN result /\ DOMAIN result[k] # {}

SnippetLine(snippet) == <<"- ">> \o snippet

WebBlock_AlwaysPublished(result) ==
    [ok |-> TRUE,
     lines |->
        << <<"Title: ">> \o Get(result, "title", NA),
           <<"URL: ">> \o Get(result, "url", NA),
           <<"Description: ">> \o Get(result, "description", NA),
           <<"Published: ">> \o Get(result, "published_date", NA) >>
        \o (IF HasField(result, "extra_snippets")
            THEN << <<"Extra snippets:">> >>
                 \o [i \in 1..Len(result["extra_snippets"]) |->
                        SnippetLine(result["extra_snippets"][i])]
            ELSE << >>)
        \o << Separator >>]

WebBlock(result) ==
    [ok |-> TRUE,
     lines |->
        << <<"Title: ">> \o Get(result, "title", NA),
           <<"URL: ">> \o Get(result, "url", NA),
           <<"Description: ">> \o Get(result, "description", NA) >>
        \o (IF HasField(result, "published_date")
            THEN << <<"Published: ">> \o result["published_date"] >>
            ELSE << >>)
        \o (IF HasField(result, "extra_snippets")
            THEN << <<"Extra snippets:">> >>
                 \o [i \in 1..Len(result["extra_snippets"]) |->
                        SnippetLine(result["extra_snippets"][i])]
            ELSE << >>)
        \o << Separator >>]

NoWebResults == <<"No results found.">>

\* data.get("web", {}).get("results", [])
WebResults(data) == Get(Get(data, "web", EmptyDict), "results", << >>)

SearchError_Bare(kind, data) == data["error"]

\* f"Error performing <kind> search: {data['error']}"
SearchError(kind, data) ==
    <<"Error performing ", kind, " search:", " ">> \o data["error"]

Finish_ResultsFirst(kind, data, bs, sentinel) ==
    IF bs = << >> /\ "error" \in DOMAIN data THEN Returned(SearchError(kind, data))
    ELSE LET b == Blocks(bs) IN
         IF b.ok THEN Returned(JoinOrSentinel(b.lines, sentinel))
         ELSE Raised("KeyError", b.lines)

\* what an operation does with the dict _make_request returned, bs being the
\* lines of each result
Finish(kind, data, bs, sentinel) ==
    IF "error" \in DOMAIN data THEN Returned(SearchError(kind, data))
    ELSE LET b == Blocks(bs) IN
         IF b.ok THEN Returned(JoinOrSentinel(b.lines, sentinel))
         ELSE Raised("KeyError", b.lines)

WebFinish(data) ==
    LET results == WebResults(data) IN
    Finish("web", data, [i \in 1..Len(results) |-> WebBlock(results[i])],
           NoWebResults)

\* d[k] of a later subscript: the one line, or KeyError(k)
KeyError(k) == [ok |-> FALSE, lines |-> <<"'", k, "'">>]

Subscript(label, d, k) ==
    IF k \in DOMAIN d THEN [ok |-> TRUE, lines |-> << <<label>> \o d[k] >>]
    ELSE KeyError(k)

NoLines == [ok |-> TRUE, lines |-> << >>]

\* the lines of two parts of a block, or the KeyError of the first that raises
Then(b1, b2) ==
    IF ~b1.ok THEN b1
    ELSE IF ~b2.ok THEN b2
    ELSE [ok |-> TRUE, lines |-> b1.lines \o b2.lines]

ImageUrl_TopOnly(result) == Get(result, "url", << >>)

\* url = result.get("url"); if not url and result.get("properties"): ...
ImageUrl(result) ==
    IF HasField(result, "url") THEN result["url"]
    ELSE IF HasDict(result, "properties")
         THEN Get(result["properties"], "url", << >>)
         ELSE << >>

\* props.get("width") and props.get("height")
HasDimensions(props) ==
    /\ Get(props, "width", 0) # 0
    /\ Get(props, "height", 0) # 0

ImageBlock(result) ==
    [ok |-> TRUE,
     lines |->
        << <<"Title: ">> \o Get(result, "title", NA),
           <<"Source: ">> \o Get(result, "source", NA) >>
        \o (IF ImageUrl(result) # << >>
            THEN << <<"URL: ">> \o ImageUrl(result) >>
            ELSE << >>)
        \o (IF HasDict(result, "thumbnail") /\ HasField(result["thumbnail"], "src")
            THEN << <<"Thumbnail: ">> \o result["thumbnail"]["src"] >>
            ELSE << >>)
        \o (IF HasDict(result, "properties") /\ HasDimensions(result["properties"])
            THEN << <<"Dimensions: ", ToString(result["properties"]["width"]), "x",
                      ToString(result["properties"]["height"])>> >>
            ELSE << >>)
        \o << Separator >>]

NoImageResults == <<"No image results found.">>

ImageFinish(data) ==
    LET results == Get(data, "results", << >>) IN
    Finish("image", data, [i \in 1..Len(results) |-> ImageBlock(results[i])],
           NoImageResults)

\* the Title, URL and Description lines of a news or video result
HeadLines(result) ==
    [ok |-> TRUE,
     lines |->
        << <<"Title: ">> \o Get(result, "title", NA),
           <<"URL: ">> \o Get(result, "url", NA),
           <<"Description: ">> \o Get(result, "description", NA) >>]

\* if result.get(k): output.append(f"<label>{result[k]}")
OptionalLine(label, result, k) ==
    IF HasField(result, k)
    THEN [ok |-> TRUE, lines |-> << <<label>> \o result[k] >>]
    ELSE NoLines

\* if result.get(k): output.append(f"<label>{result[k][sub]}")
OptionalSubLine(label, result, k, sub) ==
    IF HasDict(result, k) THEN Subscript(label, result[k], sub) ELSE NoLines

SeparatorLine == [ok |-> TRUE, lines |-> << Separator >>]

NewsBlock(result) ==
    Then(HeadLines(result),
    Then(OptionalLine("Age: ", result, "age"),
    Then(OptionalSubLine("Source: ", result, "meta_url", "hostname"),
         SeparatorLine)))

NoNewsResults == <<"No news results found.">>

NewsFinish(data) ==
    LET results == Get(data, "results", << >>) IN
    Finish("news", data, [i \in 1..Len(results) |-> NewsBlock(results[i])],
           NoNewsResults)

VideoBlock(result) ==
    Then(HeadLines(result),
    Then(OptionalLine("Age: ", result, "age"),
    Then(OptionalLine("Duration: ", result, "duration"),
    Then(OptionalSubLine("Source: ", result, "meta_url", "hostname"),
    Then(OptionalSubLine("Thumbnail: ", result, "thumbnail", "src"),
         SeparatorLine)))))

NoVideoResults == <<"No video results found.">>

VideoFinish(data) ==
    LET results == Get(data, "results", << >>) IN
    Finish("video", data, [i \in 1..Len(results) |-> VideoBlock(results[i])],
           NoVideoResults)

\* a Brave operation: m is what _make_request did, finished what the operation
\* makes of the dict it returned; an exception of _make_request propagates
BraveOperation(m, finished) ==
    [keyReads |-> m.keyReads, clients |-> m.clients, sent |-> m.sent,
     outcome |-> IF m.raised THEN m.exc ELSE finished]

web_search(a, k, r) ==
    LET m == MakeRequest("web/search", WebParams(a), k, r) IN
    BraveOperation(m, WebFinish(m.data))

image_search(a, k, r) ==
    LET m == MakeRequest("images/search", ImageParams(a), k, r) IN
    BraveOperation(m, ImageFinish(m.data))

news_search(a, k, r) ==
    LET m == MakeRequest("news/search", NewsParams(a), k, r) IN
    BraveOperation(m, NewsFinish(m.data))

video_search(a, k, r) ==
    LET m == MakeRequest("videos/search", VideoParams(a), k, r) IN
    BraveOperation(m, VideoFinish(m.data))

-----------------------------------------------------------------------------
(* ExaTools                                                                *)

\* str(x) of an attribute that may be None
PyStr(o) == IF o.isNone THEN <<"None">> ELSE o.v

SearchKwargs_Clamped(a) ==
    [query |-> a.query, num_results |-> Count(a.num_results),
     category |-> a.category, type |-> <<"auto">>,
     include_domains |-> a.include_domains, text |-> TRUE, highlights |-> TRUE]

\* the keyword arguments of exa.search_and_contents
SearchKwargs(a) ==
    [query |-> a.query, num_results |-> a.num_results, category |-> a.category,
     type |-> <<"auto">>, include_domains |-> a.include_domains,
     text |-> TRUE, highlights |-> TRUE]

\* the keyword arguments of exa.answer
AnswerKwargs(a) == [query |-> a.query, stream |-> FALSE, text |-> FALSE]

HighlightLine(highlight) == <<"- ">> \o highlight

ExaBlock(result) ==
    << <<"Title: ">> \o PyStr(result.title),
       <<"Author: ">> \o PyStr(result.author),
       <<"URL: ">> \o PyStr(result.url),
       <<"Published: ">> \o PyStr(result.published_date),
       <<"Highlights:">> >>
    \o [i \in 1..Len(result.highlights) |-> HighlightLine(result.highlights[i])]
    \o << <<"Text: ">> \o PyStr(result.text), Separator >>

\* the output list of the loop over the results
RECURSIVE ExaOutput(_)
ExaOutput(results) ==
    IF results = << >> THEN << >>
    ELSE ExaBlock(results[1]) \o ExaOutput(Tail(results))

CitationLines(citation) ==
    << <<"Citation: ">> \o PyStr(citation.title),
       <<"URL: ">> \o PyStr(citation.url),
       <<"Published: ">> \o PyStr(citation.published_date) >>

RECURSIVE CitationOutput(_)
CitationOutput(cits) ==
    IF cits = << >> THEN << >>
    ELSE CitationLines(cits[1]) \o CitationOutput(Tail(cits))

AnswerOutput_AlwaysCites(citations, answer) ==
    << PyStr(answer.answer) >> \o CitationOutput(answer.citations)

\* output = [str(answer.answer)]; if citations: ...
AnswerOutput(citations, answer) ==
    << PyStr(answer.answer) >>
    \o (IF citations THEN CitationOutput(answer.citations) ELSE << >>)

\* one Exa operation: get_key, Exa(exa_key), the one SDK call, the formatting.
\* r.kind = "ctor": the SDK constructor raises; "exc": the SDK call raises.
ExaOperation(method, kwargs, k, r, text) ==
    IF r.kind = "ctor" THEN
        [keyReads |-> 1, clients |-> 1, sent |-> << >>,
         outcome |-> Raised(r.type, r.msg)]
    ELSE
        [keyReads |-> 1, clients |-> 1,
         sent |-> << [method |-> method, key |-> k, kwargs |-> kwargs] >>,
         outcome |-> IF r.kind = "exc" THEN Raised(r.type, r.msg)
                     ELSE Returned(text)]

exa_web_search_Sentinel(a, k, r) ==
    ExaOperation("search_and_contents", SearchKwargs(a), k, r,
                 JoinOrSentinel(ExaOutput(r.results), NoWebResults))

exa_web_search(a, k, r) ==
    ExaOperation("search_and_contents", SearchKwargs(a), k, r,
                 Join(ExaOutput(r.results), <<NL>>))

get_answer(a, k, r) ==
    ExaOperation("answer", AnswerKwargs(a), k, r,
                 Join(AnswerOutput(a.citations, r), <<NL>>))

-----------------------------------------------------------------------------
(* The environment: arguments the host passes, what the key store yields,  *)
(* what the providers answer.                                              *)

Nums == (CountMin - NumBelow) .. (CountMax + NumAbove)

\* a few counts: below, inside and above the supported range
SomeNums == {CountMin - NumBelow, DefaultNumResults, CountMax + NumAbove}

Keys == {None, Some(<< >>), Some(<<"test_api_key">>)}

Query == <<"python asyncio">>

OptStr(values) == {None, Some(<< >>)} \cup {Some(<<x>>) : x \in values}

DomainPool == <<"example.com", "docs.python.org", "github.com", "pypi.org">>

\* None, [] and the lists of the first n domains of the pool
DomainLists ==
    {None} \cup {Some(SubSeq(DomainPool, 1, n)) : n \in 0..MaxDomains}

Freshness == {None} \cup {Some(<<x>>) : x \in {"pd", "pw", "pm", "py"}}

\* the filters of news_search and video_search
FilterArgs ==
    [country : OptStr({"us"}), search_lang : {None, Some(<<"en">>)},
     ui_lang : {None, Some(<<"en-US">>)}, freshness : Freshness]

DefaultFilters ==
    [country |-> None, search_lang |-> None, ui_lang |-> None, freshness |-> None]

WebOnlyArgs ==
    [include_domains : DomainLists, exclude_domains : DomainLists,
     result_filter : {None, Some(<<"news">>)}]

DefaultWebOnly ==
    [include_domains |-> None, exclude_domains |-> None, result_filter |-> None]

WebArgsOf(n, f, w) ==
    [query |-> Query, num_results |-> n, country |-> f.country,
     search_lang |-> f.search_lang, ui_lang |-> f.ui_lang,
     freshness |-> f.freshness, include_domains |-> w.include_domains,
     exclude_domains |-> w.exclude_domains, result_filter |-> w.result_filter]

\* every count with the default filters, and every filter with a few counts
WebArgs ==
    {WebArgsOf(n, DefaultFilters, DefaultWebOnly) : n \in Nums}
    \cup {WebArgsOf(DefaultNumResults, f, w) : f \in FilterArgs, w \in WebOnlyArgs}
    \cup {WebArgsOf(n, DefaultFilters, w) : n \in SomeNums, w \in WebOnlyArgs}

NewsArgsOf(n, f) ==
    [query |-> Query, num_results |-> n, country |-> f.country,
     search_lang |-> f.search_lang, ui_lang |-> f.ui_lang,
     freshness |-> f.freshness]

NewsArgs ==
    {NewsArgsOf(n, DefaultFilters) : n \in Nums}
    \cup {NewsArgsOf(n, f) : n \in SomeNums, f \in FilterArgs}

ImageArgsOf(n, f) ==
    [query |-> Query, num_results |-> n, country |-> f.country,
     search_lang |-> f.search_lang, ui_lang |-> f.ui_lang]

ImageArgs ==
    {ImageArgsOf(n, DefaultFilters) : n \in Nums}
    \cup {ImageArgsOf(n, f) : n \in SomeNums, f \in FilterArgs}

\* the contiguous sub-lists of pool of at most MaxResults entries
SubLists(pool) ==
    {SubSeq(pool, ij[1], ij[2]) :
        ij \in {x \in (1..Len(pool)) \X (0..Len(pool)) :
                    x[2] - x[1] + 1 \in 0..MaxResults}}

WebPool ==
    << [title |-> <<"Test Web Result">>, url |-> <<"https://example.com">>,
        description |-> <<"This is a test description">>,
        published_date |-> <<"2024-01-01">>,
        extra_snippets |-> << <<"Important snippet 1">>, <<"Important snippet 2">> >>],
       [title |-> <<"Second">>, url |-> <<"https://second.example">>,
        description |-> <<"Plain result">>],
       [url |-> <<"https://untitled.example">>, published_date |-> << >>,
        extra_snippets |-> << >>],
       [title |-> <<"Fourth">>, description |-> <<"No url">>,
        extra_snippets |-> << <<"Only snippet">> >>] >>

ImagePool ==
    << [title |-> <<"Test Image">>, url |-> <<"https://example.com/image.jpg">>,
        source |-> <<"example.com">>,
        thumbnail |-> [src |-> <<"https://example.com/thumb.jpg">>],
        properties |-> [width |-> 800, height |-> 600]],
       [title |-> <<"Nested url">>, source |-> <<"nested.example">>,
        properties |-> [url |-> <<"https://nested.example/i.png">>,
                        width |-> 0, height |-> 600]],
       [title |-> <<"Bare">>, thumbnail |-> EmptyDict],
       [source |-> <<"late.example">>, url |-> << >>,
        thumbnail |-> [src |-> << >>],
        properties |-> [width |-> 640]] >>

NewsPool ==
    << [title |-> <<"Test News Article">>, url |-> <<"https://news.example.com/article">>,
        description |-> <<"Breaking news description">>, age |-> <<"2 hours ago">>,
        meta_url |-> [hostname |-> <<"news.example.com">>]],
       [title |-> <<"Second article">>, url |-> <<"https://second.example/a">>,
        description |-> <<"No age">>],
       [url |-> <<"https://third.example">>, age |-> << >>, meta_url |-> EmptyDict],
       [title |-> <<"No hostname">>,
        meta_url |-> [scheme |-> <<"https">>]] >>

VideoPool ==
    << [title |-> <<"Test Video">>, url |-> <<"https://video.example.com/watch">>,
        description |-> <<"Video description">>, age |-> <<"1 day ago">>,
        duration |-> <<"5:30">>,
        meta_url |-> [hostname |-> <<"video.example.com">>],
        thumbnail |-> [src |-> <<"https://video.example.com/thumb.jpg">>]],
       [title |-> <<"Second video">>, url |-> <<"https://second.example/v">>,
        description |-> <<"No extras">>],
       [url |-> <<"https://third.example/v">>, duration |-> << >>,
        thumbnail |-> EmptyDict],
       [title |-> <<"No src">>, thumbnail |-> [original |-> <<"https://x.example/o.jpg">>]] >>

BraveResp(kind, status, msg, body) ==
    [kind |-> kind, status |-> status, msg |-> msg, body |-> body]

StatusResponses ==
    {BraveResp("status", s, <<"HTTP error">>, EmptyDict) : s \in {401, 404, 422, 500}}

ExcResponses ==
    {BraveResp("exc", 0, m, EmptyDict) :
        m \in {<<"Connection failed">>, <<"timed out">>, <<"Expecting value">>}}

ErrorBody == [error |-> <<"Rate limit exceeded">>]

WebBodies ==
    {EmptyDict, [web |-> EmptyDict], ErrorBody,
     [error |-> <<"partial">>, web |-> [results |-> << >>]],
     [error |-> <<"partial">>, web |-> [results |-> SubSeq(WebPool, 1, 1)]]}
    \cup {[web |-> [results |-> l]] : l \in SubLists(WebPool)}

ListBodies(pool) ==
    {EmptyDict, ErrorBody, [error |-> <<"partial">>, results |-> << >>],
     [error |-> <<"partial">>, results |-> SubSeq(pool, 1, 1)]}
    \cup {[results |-> l] : l \in SubLists(pool)}

BraveResponses(bodies) ==
    StatusResponses \cup ExcResponses
    \cup {BraveResp("json", 200, << >>, b) : b \in bodies}

\* no request went out, so nothing was answered
NoResponse == BraveResp("none", 0, << >>, EmptyDict)

ExaArgs ==
    [query : {Query}, num_results : Nums,
     category : {None, Some(<<"news">>), Some(<<"research paper">>)},
     include_domains : DomainLists]

AnswerArgs == [query : {Query, <<"What is Python?">>}, citations : BOOLEAN]

ExaPool ==
    << [title |-> Some(<<"Test Title">>), author |-> Some(<<"Test Author">>),
        url |-> Some(<<"https://example.com">>),
        published_date |-> Some(<<"2024-01-01">>),
        highlights |-> << <<"Important highlight 1">>, <<"Important highlight 2">> >>,
        text |-> Some(<<"This is the full text content of the result.">>)],
       [title |-> Some(<<"Second Title">>), author |-> None,
        url |-> Some(<<"https://second.example">>), published_date |-> None,
        highlights |-> << >>, text |-> Some(<< >>)],
       [title |-> None, author |-> Some(<<"Third Author">>),
        url |-> Some(<<"https://third.example">>),
        published_date |-> Some(<<"2024-03-03">>),
        highlights |-> << <<"Third highlight">> >>, text |-> None] >>

CitationPool ==
    << [title |-> Some(<<"First Citation">>), url |-> Some(<<"https://first.com">>),
        published_date |-> Some(<<"2024-01-01">>)],
       [title |-> Some(<<"Second Citation">>), url |-> Some(<<"https://second.com">>),
        published_date |-> Some(<<"2024-01-02">>)],
       [title |-> None, url |-> Some(<<"https://third.com">>),
        published_date |-> None] >>

ExaResp(kind, type, msg, results, answer, cits) ==
    [kind |-> kind, type |-> type, msg |-> msg, results |-> results,
     answer |-> answer, citations |-> cits]

ExaFailures ==
    {ExaResp("exc", "ValueError", <<"Request failed with status code 500">>,
             << >>, None, << >>),
     ExaResp("exc", "ConnectionError", <<"Connection failed">>, << >>, None, << >>)}

\* the SDK constructor refuses the key it was given
CtorRefusal ==
    ExaResp("ctor", "ValueError", <<"API key must be provided">>, << >>, None, << >>)

SearchResponses ==
    ExaFailures
    \cup {ExaResp("ok", "", << >>, l, None, << >>) : l \in SubLists(ExaPool)}

AnswerResponses ==
    ExaFailures
    \cup {ExaResp("ok", "", << >>, << >>, a, c) :
            a \in {Some(<<"This is the answer to your question.">>), Some(<< >>)},
            c \in SubLists(CitationPool)}

\* the SDK constructor may refuse only an absent credential
ExaAnswersTo(k, responses) ==
    IF Truthy(k) THEN responses ELSE responses \cup {CtorRefusal}

-----------------------------------------------------------------------------
(* The state machine.                                                      *)

NoArgs == [query |-> << >>]

NoOutcome == [kind |-> "none", type |-> "", text |-> << >>]

\* no invocation has been observed yet
NoCall ==
    [op |-> "none", args |-> NoArgs, key |-> None, resp |-> NoResponse,
     keyReads |-> 0, clients |-> 0, sent |-> << >>, outcome |-> NoOutcome]

Init ==
    /\ pc = "idle"
    /\ op = "none"
    /\ args = NoArgs
    /\ key = None
    /\ resp = NoResponse
    /\ keyReads = 0
    /\ clients = 0
    /\ sent = << >>
    /\ outcome = NoOutcome
    /\ first = NoCall
    /\ earlier = {}

\* the invocation name(a) ran as run says, under key k and provider answer r
Invoke(name, a, k, r, run) ==
    /\ pc' = "done"
    /\ op' = name
    /\ args' = a
    /\ key' = k
    /\ resp' = IF run.sent = << >> /\ r.kind # "ctor" THEN NoResponse ELSE r
    /\ keyReads' = run.keyReads
    /\ clients' = run.clients
    /\ sent' = run.sent
    /\ outcome' = run.outcome

BraveWebSearch ==
    /\ pc = "idle"
    /\ \E a \in WebArgs, k \in Keys, r \in BraveResponses(WebBodies) :
         Invoke("web_search", a, k, r, web_search(a, k, r))
    /\ UNCHANGED <<first, earlier>>

BraveImageSearch ==
    /\ pc = "idle"
    /\ \E a \in ImageArgs, k \in Keys, r \in BraveResponses(ListBodies(ImagePool)) :
         Invoke("image_search", a, k, r, image_search(a, k, r))
    /\ UNCHANGED <<first, earlier>>

BraveNewsSearch ==
    /\ pc = "idle"
    /\ \E a \in NewsArgs, k \in Keys, r \in BraveResponses(ListBodies(NewsPool)) :
         Invoke("news_search", a, k, r, news_search(a, k, r))
    /\ UNCHANGED <<first, earlier>>

BraveVideoSearch ==
    /\ pc = "idle"
    /\ \E a \in NewsArgs, k \in Keys, r \in BraveResponses(ListBodies(VideoPool)) :
         Invoke("video_search", a, k, r, video_search(a, k, r))
    /\ UNCHANGED <<first, earlier>>

ExaWebSearch ==
    /\ pc = "idle"
    /\ \E a \in ExaArgs, k \in Keys : \E r \in ExaAnswersTo(k, SearchResponses) :
         Invoke("exa_web_search", a, k, r, exa_web_search(a, k, r))
    /\ UNCHANGED <<first, earlier>>

ExaGetAnswer ==
    /\ pc = "idle"
    /\ \E a \in AnswerArgs, k \in Keys : \E r \in ExaAnswersTo(k, AnswerResponses) :
         Invoke("get_answer", a, k, r, get_answer(a, k, r))
    /\ UNCHANGED <<first, earlier>>

\* the host takes the result; the registered toolbox is ready for the next call
NextInvocation ==
    /\ pc = "done"
    /\ pc' = "idle"
    /\ op' = "none"
    /\ args' = NoArgs
    /\ key' = None
    /\ resp' = NoResponse
    /\ keyReads' = 0
    /\ clients' = 0
    /\ sent' = << >>
    /\ outcome' = NoOutcome
    /\ UNCHANGED <<first, earlier>>

Next ==
    \/ BraveWebSearch
    \/ BraveImageSearch
    \/ BraveNewsSearch
    \/ BraveVideoSearch
    \/ ExaWebSearch
    \/ ExaGetAnswer
    \/ NextInvocation

Spec == Init /\ [][Next]_vars

-----------------------------------------------------------------------------
(* Sequences of invocations on the one registered toolbox.  The history    *)
(* variables keep the first invocation as observed and how every earlier   *)
(* invocation ended; the operations are the ones above, on fewer inputs.   *)

ProbeKeys == {None, Some(<<"test_api_key">>), Some(<<"rotated_key">>)}

\* the default count and one above the supported range
ProbeNums == {DefaultNumResults, CountMax + NumAbove}

\* a fatal status, a recoverable status, a transport failure, and the bodies
ProbeResponses(bodies) ==
    {r \in StatusResponses : r.status \in {401, 500}}
    \cup {r \in ExcResponses : r.msg = <<"Connection failed">>}
    \cup {BraveResp("json", 200, << >>, b) : b \in bodies}

ProbeWebBodies ==
    {[web |-> [results |-> l]] : l \in {<< >>, SubSeq(WebPool, 1, 1)}}

ProbeListBodies(pool) == {[results |-> l] : l \in {<< >>, SubSeq(pool, 1, 1)}}

ProbeExaFailures == {r \in ExaFailures : r.type = "ConnectionError"}

ProbeSearchResponses ==
    ProbeExaFailures
    \cup {ExaResp("ok", "", << >>, l, None, << >>) :
            l \in {<< >>, SubSeq(ExaPool, 1, 1)}}

ProbeAnswerResponses ==
    ProbeExaFailures
    \cup {r \in AnswerResponses : r.kind = "ok" /\ Truthy(r.answer)}

ProbeExaArgs ==
    [query : {Query}, num_results : ProbeNums, category : {None},
     include_domains : {None}]

\* how the invocation that has just ended ended
HowEnded ==
    IF outcome.kind = "raise" THEN "fatal"
    ELSE IF StartsWith(outcome.text, <<"Error performing ">>) THEN "error"
    ELSE IF outcome.text \in {<< >>, NoWebResults, NoImageResults, NoNewsResults,
                              NoVideoResults}
         THEN "empty"
    ELSE "success"

\* the history keeps the first invocation
Remember ==
    /\ first' = IF first.op # "none" THEN first
                ELSE [op |-> op', args |-> args', key |-> key', resp |-> resp',
                      keyReads |-> keyReads', clients |-> clients',
                      sent |-> sent', outcome |-> outcome']
    /\ UNCHANGED earlier

BraveWebSearchInSequence ==
    /\ pc = "idle"
    /\ \E n \in ProbeNums, k \in ProbeKeys, r \in ProbeResponses(ProbeWebBodies) :
         LET a == WebArgsOf(n, DefaultFilters, DefaultWebOnly) IN
         Invoke("web_search", a, k, r, web_search(a, k, r))
    /\ Remember

BraveImageSearchInSequence ==
    /\ pc = "idle"
    /\ \E n \in ProbeNums, k \in ProbeKeys,
          r \in ProbeResponses(ProbeListBodies(ImagePool)) :
         LET a == ImageArgsOf(n, DefaultFilters) IN
         Invoke("image_search", a, k, r, image_search(a, k, r))
    /\ Remember

BraveNewsSearchInSequence ==
    /\ pc = "idle"
    /\ \E n \in ProbeNums, k \in ProbeKeys,
          r \in ProbeResponses(ProbeListBodies(NewsPool)) :
         LET a == NewsArgsOf(n, DefaultFilters) IN
         Invoke("news_search", a, k, r, news_search(a, k, r))
    /\ Remember

BraveVideoSearchInSequence ==
    /\ pc = "idle"
    /\ \E n \in ProbeNums, k \in ProbeKeys,
          r \in ProbeResponses(ProbeListBodies(VideoPool)) :
         LET a == NewsArgsOf(n, DefaultFilters) IN
         Invoke("video_search", a, k, r, video_search(a, k, r))
    /\ Remember

ExaWebSearchInSequence ==
    /\ pc = "idle"
    /\ \E a \in ProbeExaArgs, k \in ProbeKeys :
         \E r \in ExaAnswersTo(k, ProbeSearchResponses) :
            Invoke("exa_web_search", a, k, r, exa_web_search(a, k, r))
    /\ Remember

ExaGetAnswerInSequence ==
    /\ pc = "idle"
    /\ \E a \in AnswerArgs, k \in ProbeKeys :
         \E r \in ExaAnswersTo(k, ProbeAnswerResponses) :
            Invoke("get_answer", a, k, r, get_answer(a, k, r))
    /\ Remember

\* the host takes the result; the same toolbox object serves the next call
NextInvocationInSequence ==
    /\ pc = "done"
    /\ pc' = "idle"
    /\ op' = "none"
    /\ args' = NoArgs
    /\ key' = None
    /\ resp' = NoResponse
    /\ keyReads' = 0
    /\ clients' = 0
    /\ sent' = << >>
    /\ outcome' = NoOutcome
    /\ earlier' = earlier \cup {HowEnded}
    /\ UNCHANGED first

SequenceNext ==
    \/ BraveWebSearchInSequence
    \/ BraveImageSearchInSequence
    \/ BraveNewsSearchInSequence
    \/ BraveVideoSearchInSequence
    \/ ExaWebSearchInSequence
    \/ ExaGetAnswerInSequence
    \/ NextInvocationInSequence

SequenceSpec == Init /\ [][SequenceNext]_vars

-----------------------------------------------------------------------------
(* Properties.                                                             *)

BraveOps == {"web_search", "image_search", "news_search", "video_search"}

\* an invocation of a Brave operation has ended
BraveDone == pc = "done" /\ op \in BraveOps

\* the chunks of sub occur in the text, consecutively
Embeds(text, sub) ==
    \E i \in 1..(Len(text) - Len(sub) + 1) :
        SubSeq(text, i, i + Len(sub) - 1) = sub

\* the dict _make_request returned, or the exception it raised, in this state
MadeRequest == MakeRequest(sent[1].url[2], sent[1].params, key, resp)

\* C1: every Brave operation sends count = min(max(num_results, 1), 20): below 1
\* becomes 1, above 20 becomes 20, 1..20 is sent unchanged, always within [1,20].
C1_CountClamped ==
    (BraveDone /\ sent # << >>) =>
        LET n == args.num_results
            c == sent[1].params["count"]
        IN  /\ n < 1 => c = 1
            /\ n > 20 => c = 20
            /\ n \in 1..20 => c = n
            /\ c \in 1..20

C1_Witness ==
    /\ BraveDone /\ op = "video_search"
    /\ args.num_results = 25
    /\ sent # << >> /\ sent[1].params["count"] = 20

\* C2: when the key store yields None or "", every Brave operation raises
\* ValueError 'Brave API key not found. Please set it using: llm keys set brave'
\* with no HTTP client created and no request sent.
C2_MissingKeyRaisesBeforeAnyCall ==
    (BraveDone /\ (key.isNone \/ key.v = << >>)) =>
        /\ outcome.kind = "raise"
        /\ outcome.type = "ValueError"
        /\ outcome.text =
             <<"Brave API key not found. Please set it using: ", "llm keys set brave">>
        /\ clients = 0
        /\ sent = << >>

C2_Witness ==
    /\ BraveDone /\ op = "image_search"
    /\ ~key.isNone /\ key.v = << >>
    /\ outcome.kind = "raise" /\ sent = << >>

\* C3: on HTTP status 401 or 422, _make_request raises ValueError whose text
\* mentions the status code and 'llm keys set brave', and the operation raises
\* that exception instead of returning an error string.
C3_AuthFailuresRaise ==
    (BraveDone /\ resp.kind = "status" /\ resp.status \in {401, 422}) =>
        /\ MadeRequest.raised
        /\ MadeRequest.exc.type = "ValueError"
        /\ outcome = MadeRequest.exc
        /\ outcome.kind = "raise"
        /\ Contains(outcome.text, ToString(resp.status))
        /\ Contains(outcome.text, "llm keys set brave")

C3_Witness ==
    /\ BraveDone /\ op = "web_search"
    /\ resp.kind = "status" /\ resp.status = 401
    /\ outcome.kind = "raise"

\* C4: on any other HTTP error status, _make_request returns a dict whose 'error'
\* entry is 'Brave API error (<status>): ...', and the operation returns a string
\* that embeds that message.
C4_OtherStatusRecoverable ==
    (BraveDone /\ resp.kind = "status" /\ resp.status \notin {401, 422}) =>
        /\ ~MadeRequest.raised
        /\ "error" \in DOMAIN MadeRequest.data
        /\ StartsWith(MadeRequest.data["error"],
                      <<"Brave API error (", ToString(resp.status), "): ">>)
        /\ outcome.kind = "return"
        /\ Embeds(outcome.text, MadeRequest.data["error"])

C4_Witness ==
    /\ BraveDone /\ op = "news_search"
    /\ resp.kind = "status" /\ resp.status = 500
    /\ outcome.kind = "return"

\* C5: when the request fails with an exception that is no HTTP status error,
\* _make_request returns a dict whose 'error' entry starts with 'Failed to connect
\* to Brave API', and web_search returns a string containing 'Error performing web
\* search:' and 'Failed to connect to Brave API'.
C5_TransportFailureRecoverable ==
    (BraveDone /\ resp.kind = "exc") =>
        /\ ~MadeRequest.raised
        /\ "error" \in DOMAIN MadeRequest.data
        /\ StartsWith(MadeRequest.data["error"], <<"Failed to connect to Brave API">>)
        /\ op = "web_search" =>
              /\ outcome.kind = "return"
              /\ Embeds(outcome.text, <<"Error performing ", "web", " search:">>)
              /\ Contains(outcome.text, "Failed to connect to Brave API")

C5_Witness ==
    /\ BraveDone /\ op = "web_search"
    /\ resp.kind = "exc"
    /\ outcome.kind = "return"

\* C6: every invocation makes exactly one outbound call, whatever its outcome; the
\* only invocations with no outbound call are those that fail for want of a
\* credential.
C6_ExactlyOneOutboundCall ==
    pc = "done" =>
        \/ Len(sent) = 1
        \/ /\ Len(sent) = 0
           /\ ~Truthy(key)
           /\ outcome.kind = "raise"

C6_Witness ==
    /\ pc = "done" /\ op = "video_search"
    /\ resp.kind = "status" /\ resp.status = 500
    /\ Len(sent) = 1

\* the successful response carries a result list, and it is empty
EmptyResultList ==
    /\ resp.kind = "json"
    /\ IF op = "web_search"
       THEN /\ "web" \in DOMAIN resp.body
            /\ "results" \in DOMAIN resp.body["web"]
            /\ Len(resp.body["web"]["results"]) = 0
       ELSE /\ "results" \in DOMAIN resp.body
            /\ Len(resp.body["results"]) = 0

SentinelOf(name) ==
    CASE name = "web_search"   -> <<"No results found.">>
      [] name = "image_search" -> <<"No image results found.">>
      [] name = "news_search"  -> <<"No news results found.">>
      [] name = "video_search" -> <<"No video results found.">>

\* C7 as stated: a successful Brave response with an empty result list makes the
\* operation return exactly its sentinel string.
C7_EmptyListGivesSentinel_AsStated ==
    (BraveDone /\ EmptyResultList) => outcome = Returned(SentinelOf(op))

\* C7, amended: a successful Brave response with an empty result list and no
\* top-level 'error' key makes the operation return exactly its sentinel string.
C7_EmptyListGivesSentinel ==
    (BraveDone /\ EmptyResultList /\ "error" \notin DOMAIN resp.body) =>
        outcome = Returned(SentinelOf(op))

C7_Witness ==
    /\ BraveDone /\ op = "video_search"
    /\ EmptyResultList /\ "error" \notin DOMAIN resp.body
    /\ outcome.text = <<"No video results found.">>

\* query, one space, then '-site:d' for each d in order, joined by single spaces
RECURSIVE ExcludeSuffix(_)
ExcludeSuffix(domains) ==
    IF domains = << >> THEN << >>
    ELSE <<" ", "-site:", domains[1]>> \o ExcludeSuffix(Tail(domains))

\* 'site:d1 OR site:d2 OR ... OR site:dn'
RECURSIVE OrSites(_)
OrSites(domains) ==
    IF Len(domains) = 1 THEN <<"site:", domains[1]>>
    ELSE <<"site:", domains[1], " OR ">> \o OrSites(Tail(domains))

WebSent == pc = "done" /\ op = "web_search" /\ sent # << >>

\* C8: in web_search a non-empty exclude_domains list makes the sent q the query,
\* a space, and the '-site:' terms in list order joined by spaces; otherwise q is
\* the query unchanged; exclusion never adds or changes the 'site' parameter.
C8_ExcludeAppendsSiteTerms ==
    WebSent =>
        LET p == sent[1].params
            ex == args.exclude_domains
        IN  /\ (~ex.isNone /\ ex.v # << >>) =>
                  p["q"] = args.query \o ExcludeSuffix(ex.v)
            /\ (ex.isNone \/ ex.v = << >>) => p["q"] = args.query
            /\ \A other \in DomainLists :
                  LET q == WebParams([args EXCEPT !.exclude_domains = other])
                  IN  /\ ("site" \in DOMAIN q) = ("site" \in DOMAIN p)
                      /\ "site" \in DOMAIN p => q["site"] = p["site"]

C8_Witness ==
    /\ WebSent
    /\ ~args.exclude_domains.isNone /\ Len(args.exclude_domains.v) = 2
    /\ sent[1].params["q"] =
         <<"python asyncio", " ", "-site:", "example.com", " ", "-site:",
           "docs.python.org">>

\* C9: in web_search a non-empty include_domains list gives the 'site' parameter
\* 'site:d1 OR ... OR site:dn' in list order and leaves q untouched; otherwise no
\* 'site' parameter is sent; with exclude_domains too, both effects apply.
C9_IncludeBuildsSiteFilter ==
    WebSent =>
        LET p == sent[1].params
            inc == args.include_domains
        IN  /\ (~inc.isNone /\ inc.v # << >>) =>
                  /\ "site" \in DOMAIN p
                  /\ p["site"] = OrSites(inc.v)
            /\ (inc.isNone \/ inc.v = << >>) => "site" \notin DOMAIN p
            /\ p["q"] = WebParams([args EXCEPT !.include_domains = None])["q"]
            /\ (~inc.isNone /\ inc.v # << >> /\ Truthy(args.exclude_domains)) =>
                  p["q"] = args.query \o ExcludeSuffix(args.exclude_domains.v)

C9_Witness ==
    /\ WebSent
    /\ ~args.include_domains.isNone /\ Len(args.include_domains.v) = 2
    /\ Truthy(args.exclude_domains)
    /\ sent[1].params["site"] =
         <<"site:", "example.com", " OR ", "site:", "docs.python.org">>

\* the three lines of each citation, in upstream order, each after a line break
RECURSIVE CitationText(_)
CitationText(cits) ==
    IF cits = << >> THEN << >>
    ELSE <<NL, "Citation: ">> \o PyStr(cits[1].title)
         \o <<NL, "URL: ">> \o PyStr(cits[1].url)
         \o <<NL, "Published: ">> \o PyStr(cits[1].published_date)
         \o CitationText(Tail(cits))

AnswerDone == pc = "done" /\ op = "get_answer" /\ resp.kind = "ok"

\* C10: get_answer returns the answer text first; with citations=True it appends
\* 'Citation:', 'URL:', 'Published:' lines per citation in upstream order; with
\* citations=False or no citation it returns exactly the answer text; the outbound
\* answer call does not depend on the flag.
C10_AnswerWithOptionalCitations ==
    AnswerDone =>
        /\ outcome.kind = "return"
        /\ StartsWith(outcome.text, resp.answer.v)
        /\ args.citations =>
              outcome.text = resp.answer.v \o CitationText(resp.citations)
        /\ (~args.citations \/ resp.citations = << >>) =>
              /\ outcome.text = resp.answer.v
              /\ ~Contains(outcome.text, "Citation: ")
              /\ ~Contains(outcome.text, "URL: ")
              /\ ~Contains(outcome.text, "Published: ")
        /\ sent = << [method |-> "answer", key |-> key,
                      kwargs |-> [query |-> args.query, stream |-> FALSE,
                                  text |-> FALSE]] >>

C10_Witness ==
    /\ AnswerDone
    /\ args.citations /\ Len(resp.citations) = 2
    /\ Contains(outcome.text, "Second Citation")

ExaOps == {"exa_web_search", "get_answer"}

\* C11: when the Exa provider returns an empty result list, Exa web_search
\* returns the empty string.
C11_ExaEmptyResultsGiveEmptyString ==
    (pc = "done" /\ op = "exa_web_search" /\ resp.kind = "ok"
        /\ Len(resp.results) = 0) =>
        outcome = [kind |-> "return", type |-> "str", text |-> << >>]

C11_Witness ==
    /\ pc = "done" /\ op = "exa_web_search"
    /\ resp.kind = "ok" /\ Len(resp.results) = 0
    /\ outcome.kind = "return" /\ Len(outcome.text) = 0

\* C12: Exa web_search forwards query, num_results (never clamped), category and
\* include_domains as given, and always sends type='auto', text=True,
\* highlights=True.
C12_ExaArgumentsForwarded ==
    (pc = "done" /\ op = "exa_web_search" /\ sent # << >>) =>
        /\ sent[1].method = "search_and_contents"
        /\ sent[1].kwargs =
             [query |-> args.query, num_results |-> args.num_results,
              category |-> args.category, type |-> <<"auto">>,
              include_domains |-> args.include_domains,
              text |-> TRUE, highlights |-> TRUE]

C12_Witness ==
    /\ pc = "done" /\ op = "exa_web_search" /\ sent # << >>
    /\ args.num_results = 25 /\ sent[1].kwargs.num_results = 25
    /\ args.category.isNone /\ sent[1].kwargs.category.isNone

\* C13: for every operation of both providers an absent credential (None or
\* empty) is fatal: the operation raises and neither constructs the provider
\* client nor makes the outbound call.
C13_AbsentCredentialFatalEverywhere ==
    (pc = "done" /\ (key.isNone \/ key.v = << >>)) =>
        /\ outcome.kind = "raise"
        /\ clients = 0
        /\ sent = << >>

\* C14: for the Exa operations a failure of the provider call (transport, or an
\* HTTP failure other than 401/422) is returned as a plain-text error message,
\* not raised.
C14_ExaFailuresReturnedAsText ==
    (pc = "done" /\ op \in ExaOps /\ resp.kind = "exc") =>
        outcome.kind = "return"

\* C15: a Brave operation raises only when the credential is missing or empty or
\* the API answered 401 or 422; in every other situation, whatever the decoded
\* JSON holds, it returns a string.
C15_BraveRaisesOnlyOnThreeCauses ==
    (BraveDone /\ outcome.kind = "raise") =>
        \/ key.isNone \/ key.v = << >>
        \/ resp.kind = "status" /\ resp.status \in {401, 422}

\* the result list a decoded Brave response carries (none: the empty list)
UpstreamResults ==
    IF op = "web_search"
    THEN IF "web" \in DOMAIN resp.body /\ "results" \in DOMAIN resp.body["web"]
         THEN resp.body["web"]["results"] ELSE << >>
    ELSE IF "results" \in DOMAIN resp.body THEN resp.body["results"] ELSE << >>

\* a Brave operation received a decoded JSON response
Decoded == BraveDone /\ resp.kind = "json"

\* the field's text, 'N/A' when the result lacks the field
OrNA(result, k) == IF k \in DOMAIN result THEN result[k] ELSE <<"N/A">>

\* one '- <snippet>' line per snippet, each after a line break
RECURSIVE SnippetText(_)
SnippetText(snippets) ==
    IF snippets = << >> THEN << >>
    ELSE <<NL, "- ">> \o snippets[1] \o SnippetText(Tail(snippets))

\* the lines of one web result, from 'Title:' to the separator line
WebResultText(result) ==
    <<"Title: ">> \o OrNA(result, "title")
    \o <<NL, "URL: ">> \o OrNA(result, "url")
    \o <<NL, "Description: ">> \o OrNA(result, "description")
    \o (IF "published_date" \in DOMAIN result /\ Len(result["published_date"]) > 0
        THEN <<NL, "Published: ">> \o result["published_date"] ELSE << >>)
    \o (IF "extra_snippets" \in DOMAIN result /\ Len(result["extra_snippets"]) > 0
        THEN <<NL, "Extra snippets:">> \o SnippetText(result["extra_snippets"])
        ELSE << >>)
    \o <<NL, "---------", NL>>

\* the text of the results in order, a line break between two results
RECURSIVE WebText(_)
WebText(results) ==
    IF Len(results) = 1 THEN WebResultText(results[1])
    ELSE WebResultText(results[1]) \o <<NL>> \o WebText(Tail(results))

\* C16 as stated: for every result of a successful web_search response the output
\* holds, in order, Title, URL, Description (N/A when absent), Published only when
\* non-empty, Extra snippets and its '- ' lines only when non-empty, the separator.
C16_WebResultLines_AsStated ==
    (Decoded /\ op = "web_search" /\ Len(UpstreamResults) > 0) =>
        /\ outcome.kind = "return"
        /\ outcome.text = WebText(UpstreamResults)

\* C16, amended: the same, for a successful web_search response that has no
\* top-level 'error' key.
C16_WebResultLines ==
    (Decoded /\ op = "web_search" /\ Len(UpstreamResults) > 0
        /\ "error" \notin DOMAIN resp.body) =>
        /\ outcome.kind = "return"
        /\ outcome.text = WebText(UpstreamResults)

C16_Witness ==
    /\ Decoded /\ op = "web_search" /\ "error" \notin DOMAIN resp.body
    /\ Len(UpstreamResults) = 2
    /\ "title" \notin DOMAIN UpstreamResults[1]
    /\ "extra_snippets" \in DOMAIN UpstreamResults[2]
    /\ Len(UpstreamResults[2]["extra_snippets"]) > 0
    /\ Contains(outcome.text, "N/A")
    /\ Contains(outcome.text, "Extra snippets:")

\* a search operation received a response that it does not report as an error
SearchAnswered ==
    /\ pc = "done"
    /\ \/ op \in BraveOps /\ resp.kind = "json" /\ "error" \notin DOMAIN resp.body
       \/ op = "exa_web_search" /\ resp.kind = "ok"

\* the results of that response, in upstream order
AnsweredResults == IF op = "exa_web_search" THEN resp.results ELSE UpstreamResults

\* the title the block of a result starts with
TitleOf(result) ==
    IF op = "exa_web_search"
    THEN (IF result.title.isNone THEN <<"None">> ELSE result.title.v)
    ELSE OrNA(result, "title")

\* where the separator lines of the text are
SeparatorsOf(text) == {i \in 1..Len(text) : text[i] = "---------"}

\* the j-th smallest member of a set of positions
NthOf(positions, j) ==
    CHOOSE i \in positions : Cardinality({x \in positions : x < i}) = j - 1

\* where the block of the j-th result starts: after the previous separator line
\* and the line break that joins two output entries
BlockStart(text, j) ==
    IF j = 1 THEN 1 ELSE NthOf(SeparatorsOf(text), j - 1) + 3

\* C17: the output of a search operation of either provider holds exactly one
\* separator line '---------' per upstream result, each result's block ends with
\* its separator, and the blocks are in upstream order; stated here for the
\* responses that the operation does not report as an error.
C17_OneSeparatorPerResultInOrder ==
    SearchAnswered =>
        LET n == Len(AnsweredResults) IN
        /\ outcome.kind = "return"
        /\ Cardinality(SeparatorsOf(outcome.text)) = n
        /\ n > 0 => outcome.text[Len(outcome.text) - 1] = "---------"
        /\ \A j \in 1..n :
              LET start == BlockStart(outcome.text, j) IN
              StartsWith(SubSeq(outcome.text, start, Len(outcome.text)),
                         <<"Title: ">> \o TitleOf(AnsweredResults[j]))

\* the optional filters that are passed through under their own name
PassedFilters ==
    {"country", "search_lang", "ui_lang", "freshness", "result_filter"}

\* the parameter names the arguments of a Brave operation call for
ExpectedParamNames ==
    {"q", "count"}
    \cup {f \in PassedFilters \cap DOMAIN args : Truthy(args[f])}
    \cup (IF "include_domains" \in DOMAIN args /\ Truthy(args.include_domains)
          THEN {"site"} ELSE {})

\* C18: the request parameters of a Brave operation are exactly 'q', 'count' and
\* one entry per optional filter supplied with a non-empty value: country,
\* search_lang, ui_lang, freshness, result_filter and site are present if and only
\* if the matching argument is non-empty and carry its value (freshness
\* unchanged); an omitted, None or empty argument adds no parameter.
C18_ParamsAreExactlySuppliedFilters ==
    (BraveDone /\ sent # << >>) =>
        LET p == sent[1].params IN
        /\ DOMAIN p = ExpectedParamNames
        /\ \A f \in PassedFilters \cap DOMAIN p : p[f] = args[f].v
        /\ "site" \in DOMAIN p => p["site"] = OrSites(args.include_domains.v)

C18_Witness ==
    /\ BraveDone /\ op = "news_search" /\ sent # << >>
    /\ args.country = Some(<< >>) /\ args.search_lang = None
    /\ args.freshness = Some(<<"pw">>)
    /\ DOMAIN sent[1].params = {"q", "count", "ui_lang", "freshness"}
    /\ sent[1].params["freshness"] = <<"pw">>

\* the top-level url when non-empty, otherwise the url inside properties, empty
\* when neither exists
UrlOf(result) ==
    IF "url" \in DOMAIN result /\ Len(result["url"]) > 0 THEN result["url"]
    ELSE IF "properties" \in DOMAIN result /\ "url" \in DOMAIN result["properties"]
         THEN result["properties"]["url"]
         ELSE << >>

\* thumbnail.src, empty when the result has none
ThumbnailOf(result) ==
    IF "thumbnail" \in DOMAIN result /\ "src" \in DOMAIN result["thumbnail"]
    THEN result["thumbnail"]["src"] ELSE << >>

\* properties has both a non-zero width and a non-zero height
BothDimensions(result) ==
    /\ "properties" \in DOMAIN result
    /\ {"width", "height"} \subseteq DOMAIN result["properties"]
    /\ result["properties"]["width"] # 0
    /\ result["properties"]["height"] # 0

\* the lines of one image result, from 'Title:' to the separator line
ImageResultText(result) ==
    <<"Title: ">> \o OrNA(result, "title")
    \o <<NL, "Source: ">> \o OrNA(result, "source")
    \o (IF Len(UrlOf(result)) > 0 THEN <<NL, "URL: ">> \o UrlOf(result) ELSE << >>)
    \o (IF Len(ThumbnailOf(result)) > 0
        THEN <<NL, "Thumbnail: ">> \o ThumbnailOf(result) ELSE << >>)
    \o (IF BothDimensions(result)
        THEN <<NL, "Dimensions: ", ToString(result["properties"]["width"]), "x",
               ToString(result["properties"]["height"])>>
        ELSE << >>)
    \o <<NL, "---------", NL>>

\* the text of the image results in order, a line break between two results
RECURSIVE ImageText(_)
ImageText(results) ==
    IF Len(results) = 1 THEN ImageResultText(results[1])
    ELSE ImageResultText(results[1]) \o <<NL>> \o ImageText(Tail(results))

\* C19 as stated: in image_search each result's 'URL:' line uses the top-level
\* url when non-empty, otherwise properties.url, and is omitted when neither
\* exists; 'Thumbnail:' appears only for a non-empty thumbnail.src, 'Dimensions:
\* <w>x<h>' only for a non-zero width and height; a result lacking any of these
\* still yields its Title, Source and separator lines and never raises.
C19_ImageResultLines_AsStated ==
    (Decoded /\ op = "image_search" /\ Len(UpstreamResults) > 0) =>
        /\ outcome.kind = "return"
        /\ outcome.text = ImageText(UpstreamResults)

\* C19, amended: the same, for a successful image_search response that has no
\* top-level 'error' key.
C19_ImageResultLines ==
    (Decoded /\ op = "image_search" /\ Len(UpstreamResults) > 0
        /\ "error" \notin DOMAIN resp.body) =>
        /\ outcome.kind = "return"
        /\ outcome.text = ImageText(UpstreamResults)

C19_Witness ==
    /\ Decoded /\ op = "image_search" /\ "error" \notin DOMAIN resp.body
    /\ Len(UpstreamResults) = 1
    /\ "url" \notin DOMAIN UpstreamResults[1]
    /\ outcome.text =
         <<"Title: ", "Nested url", NL, "Source: ", "nested.example", NL,
           "URL: ", "https://nested.example/i.png", NL, "---------", NL>>

\* 'Error performing <web|image|news|video> search: '
ErrorPrefixOf(name) ==
    CASE name = "web_search"   -> <<"Error performing ", "web", " search:", " ">>
      [] name = "image_search" -> <<"Error performing ", "image", " search:", " ">>
      [] name = "news_search"  -> <<"Error performing ", "news", " search:", " ">>
      [] name = "video_search" -> <<"Error performing ", "video", " search:", " ">>

\* a Brave operation returned a string
BraveReturned == BraveDone /\ outcome.kind = "return"

\* the request failed in a way the operation recovers from
RequestFailed == resp.kind \in {"status", "exc"}

\* the response names an error at its top level
ErrorKeyed == resp.kind = "json" /\ "error" \in DOMAIN resp.body

\* C20 as stated: of the outcomes of a Brave search operation that return a
\* string, a recoverable error starts with 'Error performing <kind> search: ', a
\* success with at least one result starts with 'Title: ', and the sentinel is
\* returned if and only if the successful response carried zero results; a
\* response with one or more results never yields the sentinel or ''.
C20_OutcomesDistinguishable_AsStated ==
    BraveReturned =>
        /\ RequestFailed => StartsWith(outcome.text, ErrorPrefixOf(op))
        /\ (resp.kind = "json" /\ Len(UpstreamResults) > 0) =>
              /\ StartsWith(outcome.text, <<"Title: ">>)
              /\ outcome.text # SentinelOf(op)
              /\ outcome.text # << >>
        /\ outcome.text = SentinelOf(op)
              <=> (resp.kind = "json" /\ Len(UpstreamResults) = 0)

\* C20, amended: a response with a top-level 'error' key counts as a recoverable
\* error, and a success is a decoded response without that key.
C20_OutcomesDistinguishable ==
    BraveReturned =>
        /\ (RequestFailed \/ ErrorKeyed) =>
              StartsWith(outcome.text, ErrorPrefixOf(op))
        /\ (resp.kind = "json" /\ ~ErrorKeyed /\ Len(UpstreamResults) > 0) =>
              StartsWith(outcome.text, <<"Title: ">>)
        /\ (resp.kind = "json" /\ Len(UpstreamResults) > 0) =>
              /\ outcome.text # SentinelOf(op)
              /\ outcome.text # << >>
        /\ outcome.text = SentinelOf(op)
              <=> (resp.kind = "json" /\ ~ErrorKeyed /\ Len(UpstreamResults) = 0)

\* an error report for a response that nevertheless carries a result
C20_Witness ==
    /\ BraveReturned /\ op = "video_search" /\ ErrorKeyed
    /\ Len(UpstreamResults) = 1
    /\ outcome.text = <<"Error performing ", "video", " search:", " ", "partial">>

\* _make_request returned a dict, and the dict has a top-level 'error' key
ErrorInReturnedDict ==
    /\ sent # << >>
    /\ ~MadeRequest.raised
    /\ "error" \in DOMAIN MadeRequest.data

\* the operation returned 'Error performing <kind> search: ...'
ReportsError ==
    outcome.kind = "return" /\ StartsWith(outcome.text, ErrorPrefixOf(op))

\* C21: a Brave search operation reports an error string if and only if the dict
\* returned by _make_request has a top-level 'error' key; so an HTTP-successful
\* response whose JSON body has a top-level 'error' key is reported as 'Error
\* performing <kind> search: <value>' and its results, if any, are not formatted.
C21_ErrorReportedIffErrorKey ==
    BraveDone =>
        /\ ReportsError <=> ErrorInReturnedDict
        /\ ErrorInReturnedDict =>
              outcome.text = ErrorPrefixOf(op) \o MadeRequest.data["error"]
        /\ (sent # << >> /\ ErrorKeyed) =>
              outcome = Returned(ErrorPrefixOf(op) \o resp.body["error"])

C21_Witness ==
    /\ BraveDone /\ op = "web_search" /\ sent # << >> /\ ErrorKeyed
    /\ Len(UpstreamResults) = 1
    /\ outcome = Returned(<<"Error performing ", "web", " search:", " ", "partial">>)

\* this invocation has the arguments, the credential and the provider's response
\* of the first invocation of the toolbox
SameInputsAsFirst ==
    /\ pc = "done"
    /\ first.op = op
    /\ first.args = args
    /\ first.key = key
    /\ first.resp.kind = resp.kind
    /\ first.resp = resp

\* the credential that went out with the provider call
CredentialSent ==
    IF op \in BraveOps THEN Some(sent[1].headers.XSubscriptionToken)
    ELSE sent[1].key

\* C22: operations carry no state from one invocation to the next: whatever
\* invocations came before, an invocation's outbound request and its return value
\* or raised error are those of the first invocation of the toolbox with the same
\* arguments, credential and provider response; the credential is resolved
\* afresh, exactly once, on every invocation, and it is the one that is sent.
C22_NoStateBetweenInvocations ==
    pc = "done" =>
        /\ keyReads = 1
        /\ sent # << >> => CredentialSent = key
        /\ SameInputsAsFirst =>
              /\ sent = first.sent
              /\ outcome = first.outcome
              /\ keyReads = first.keyReads
              /\ clients = first.clients

\* after a success, an empty result, a recoverable error and a fatal error, under
\* another credential than the previous calls used, the first call is repeated
C22_Witness ==
    /\ SameInputsAsFirst
    /\ earlier = {"success", "empty", "error", "fatal"}
    /\ op = "news_search" /\ key = Some(<<"rotated_key">>)
    /\ outcome.kind = "return" /\ StartsWith(outcome.text, <<"Title: ">>)
    /\ outcome = first.outcome

====
